---- MODULE Spec2Model ----
(***************************************************************************)
(* Model of src/src/fetch_top_cryptos.py: the exchange registry, the       *)
(* symbol resolver, the ranked candidate selector and the two fetch modes  *)
(* of the aggregator.                                                      *)
(*                                                                         *)
(* Python strings are TLA+ strings.  A Python set of strings is modelled   *)
(* as a duplicate-free sequence: the sequence order is the (unspecified)   *)
(* iteration order of the set, drawn nondeterministically when the set is  *)
(* built.  A raised exception is the value of the variable raised and the  *)
(* position pc = "raised": no function of the file catches anything.       *)
(***************************************************************************)
EXTENDS Integers, Sequences, FiniteSets, TLC

VARIABLES
    pc,                    \* position in the running entry point
    raised,                \* exception that left the entry point, or NoError
    outcomes,              \* collaborator outcomes seen so far, in call order
    api_key,               \* truthiness of the CoinMarketCap key
    target_count,          \* target_count argument
    base_symbol,           \* argument of find_valid_symbol (resolver runs)
    valid_binance_symbols, \* registry, in iteration order
    data,                  \* ranked tickers: item['symbol'] of response.json()['data']
    valid_symbols,         \* list built by get_top10_symbols
    result,                \* value returned by the entry point
    symbols,               \* symbols argument of the aggregator
    source,                \* source argument of get_multiple_cryptos_data
    num_days,              \* length of dates (multi-day mode)
    symbol_index,          \* 1-based position of the symbol loop
    date_index,            \* 1-based position of the day loop
    all_data,              \* all_data / all_symbol_data: the successful frames
    successful_symbols,    \* rolling-window mode
    failed_symbols,        \* rolling-window mode
    successful_count,      \* multi-day mode
    symbol_data_list       \* multi-day mode: per-day frames of the symbol in progress

selVars == <<api_key, base_symbol, valid_binance_symbols, data, valid_symbols>>

aggVars == <<symbols, source, num_days, symbol_index, date_index, all_data, successful_symbols,
             failed_symbols, successful_count, symbol_data_list>>

vars == <<pc, raised, outcomes, target_count, result, selVars, aggVars>>

----------------------------------------------------------------------------
(* Bounds of the model *)

MaxRanked == 3

MaxRegistry == 3

MaxTarget == 2

MaxSymbols == 3

MaxDays == 3

MaxStamp == 2

----------------------------------------------------------------------------
(* Values *)

None == "None"

NoError == "NoError"

QUOTE == "USDT"

\* How one HTTP call of requests.get can end: status 200 with a well formed
\* body, another status, an exception of the transport (connection, timeout),
\* status 200 with a body the caller cannot read.
Outcomes == {"ok", "status", "transport", "malformed"}

\* Tickers a ranking provider may list.
RankedCodes == {"BTC", "ETH", "HYPE", "W", "WBTC"}

\* Arguments given to the resolver alone.
ResolverCodes == RankedCodes \cup {"btc", "USDC"}

\* Pairs the exchange may list as TRADING.
PairUniverse == {"BTCUSDT", "ETHUSDT", "HYPERUSDT", "HYPEXUSDT", "WBTCUSDT"}

\* Registry entries given to the resolver alone.
ResolverPairs == PairUniverse \cup {"HYPEUSDT", "USDCUSDT"}

stablecoins == {"USDT", "USDC", "BUSD", "TUSD", "DAI", "FDUSD", "USDE"}

excluded == {"WETH", "WBTC", "STETH"}

fallback_bases == <<"BTC", "ETH", "BNB", "XRP", "SOL", "ADA", "DOGE", "AVAX",
                    "DOT", "LINK", "MATIC", "LTC", "UNI", "ATOM", "XLM",
                    "FIL", "ETC", "AAVE", "ALGO", "VET", "TRX", "SUI">>

----------------------------------------------------------------------------
(* Sequences and strings *)

Range(s) == {s[i] : i \in 1..Len(s)}

NoDuplicates(s) == \A i, j \in 1..Len(s) : s[i] = s[j] => i = j

\* s[:n] for n >= 0
Take(s, n) == SubSeq(s, 1, IF n < Len(s) THEN n ELSE Len(s))

\* Duplicate-free sequences over S of length at most n: the iteration orders
\* of the subsets of S with at most n elements.
Orderings(S, n) ==
    {s \in UNION {[1..k -> S] : k \in 0..n} : NoDuplicates(s)}

SeqsUpTo(S, n) == UNION {[1..k -> S] : k \in 0..n}

startswith(s, prefix) ==
    Len(prefix) <= Len(s) /\ SubSeq(s, 1, Len(prefix)) = prefix

endswith(s, suffix) ==
    Len(suffix) <= Len(s) /\ SubSeq(s, Len(s) - Len(suffix) + 1, Len(s)) = suffix

UpperChar(c) ==
    CASE c = "b" -> "B"
      [] c = "t" -> "T"
      [] c = "c" -> "C"
      [] c = "e" -> "E"
      [] c = "h" -> "H"
      [] c = "y" -> "Y"
      [] c = "p" -> "P"
      [] c = "w" -> "W"
      [] c = "u" -> "U"
      [] c = "s" -> "S"
      [] c = "d" -> "D"
      [] OTHER -> c

RECURSIVE upper(_)
upper(s) ==
    IF Len(s) = 0 THEN s
    ELSE UpperChar(SubSeq(s, 1, 1)) \o upper(SubSeq(s, 2, Len(s)))

----------------------------------------------------------------------------
(* Exchange Registry: get_all_binance_symbols *)

\* The 'symbols' records of an exchangeInfo body in which exactly the pairs
\* of trading are TRADING; a pair quoted in BTC is always listed.
ExchangeInfo(trading) ==
    {[symbol |-> p, status |-> IF p \in trading THEN "TRADING" ELSE "BREAK"] :
        p \in PairUniverse}
    \cup {[symbol |-> "ETHBTC", status |-> "TRADING"]}

\* The set built by the loop of lines 29-32.
usdt_symbols(records) ==
    {r.symbol : r \in {x \in records :
                         endswith(x.symbol, "USDT") /\ x.status = "TRADING"}}

----------------------------------------------------------------------------
(* Symbol Resolver: find_valid_symbol *)

\* Variations with the registry scan tried before the alias.
Variations_ScanFirst(base, registry) ==
    <<upper(base) \o "USDT">>
    \o SelectSeq(registry, LAMBDA s : startswith(s, base) /\ endswith(s, "USDT"))
    \o <<IF base = "HYPE" THEN "HYPER" \o "USDT" ELSE None>>

\* The variations list of lines 55-63: the upper-cased concatenation, the
\* HYPE alias (or None), then every registry entry that starts with the base
\* symbol and ends with USDT, in iteration order.
Variations(base, registry) ==
    <<upper(base) \o "USDT", IF base = "HYPE" THEN "HYPER" \o "USDT" ELSE None>>
    \o SelectSeq(registry, LAMBDA s : startswith(s, base) /\ endswith(s, "USDT"))

\* Lines 66-72: the first variation that is truthy and in the registry.
RECURSIVE FirstValid(_, _, _)
FirstValid(variations, i, registry) ==
    IF i > Len(variations) THEN None
    ELSE IF variations[i] # None /\ variations[i] # "" /\ variations[i] \in Range(registry)
         THEN variations[i]
         ELSE FirstValid(variations, i + 1, registry)

find_valid_symbol(base, registry) ==
    LET exact_match == base \o "USDT"
    IN  IF exact_match \in Range(registry)
        THEN exact_match
        ELSE FirstValid(Variations(base, registry), 1, registry)

----------------------------------------------------------------------------
(* Ranked Candidate Selector: get_top10_symbols *)

\* IsFiltered without the excluded wrapped assets.
IsFiltered_StablecoinsOnly(base) == base \in stablecoins

\* Line 115
IsFiltered(base) == base \in stablecoins \/ base \in excluded

\* The loop of lines 109-124 from item i on, acc being valid_symbols.
RECURSIVE PrimaryLoop(_, _, _, _, _)
PrimaryLoop(items, i, acc, registry, target) ==
    IF i > Len(items) \/ Len(acc) >= target THEN acc
    ELSE IF IsFiltered(items[i])
         THEN PrimaryLoop(items, i + 1, acc, registry, target)
         ELSE LET valid_pair == find_valid_symbol(items[i], registry)
              IN  IF valid_pair # None
                  THEN PrimaryLoop(items, i + 1, Append(acc, valid_pair), registry, target)
                  ELSE PrimaryLoop(items, i + 1, acc, registry, target)

\* Lines 147-152: what one fallback base adds to valid_symbols.
FallbackStep(acc, base, registry) ==
    IF registry # <<>>
    THEN LET valid_pair == find_valid_symbol(base, registry)
         IN  IF valid_pair # None THEN Append(acc, valid_pair) ELSE acc
    ELSE Append(acc, base \o "USDT")

\* The loop of lines 143-152 from base i on.
RECURSIVE FallbackLoop(_, _, _, _)
FallbackLoop(i, acc, registry, target) ==
    IF i > Len(fallback_bases) \/ Len(acc) >= target THEN acc
    ELSE FallbackLoop(i + 1, FallbackStep(acc, fallback_bases[i], registry),
                      registry, target)

\* The aggregator's variables while the aggregator does not run.
AggIdle ==
    /\ symbols = <<>>
    /\ source = None
    /\ num_days = 0
    /\ symbol_index = 0
    /\ date_index = 0
    /\ all_data = <<>>
    /\ successful_symbols = <<>>
    /\ failed_symbols = <<>>
    /\ successful_count = 0
    /\ symbol_data_list = <<>>

SelectInit ==
    /\ pc = "start"
    /\ raised = NoError
    /\ outcomes = <<>>
    /\ api_key \in BOOLEAN
    /\ target_count \in 0..MaxTarget
    /\ base_symbol = None
    /\ valid_binance_symbols = <<>>
    /\ data = <<>>
    /\ valid_symbols = <<>>
    /\ result = None
    /\ AggIdle

\* Line 91, get_all_binance_symbols (lines 19-35).
Discover ==
    /\ pc = "start"
    /\ \E o \in Outcomes :
         /\ outcomes' = Append(outcomes, <<"exchange", o>>)
         /\ CASE o = "transport" ->
                   /\ raised' = "RequestException"
                   /\ pc' = "raised"
                   /\ UNCHANGED valid_binance_symbols
              [] o = "malformed" ->
                   /\ raised' = "BodyError"
                   /\ pc' = "raised"
                   /\ UNCHANGED valid_binance_symbols
              [] o = "status" ->
                   /\ valid_binance_symbols' = <<>>
                   /\ pc' = "ranking"
                   /\ UNCHANGED raised
              [] o = "ok" ->
                   /\ \E order \in Orderings(PairUniverse, MaxRegistry) :
                        /\ Range(order) = usdt_symbols(ExchangeInfo(Range(order)))
                        /\ valid_binance_symbols' = order
                   /\ pc' = "ranking"
                   /\ UNCHANGED raised
    /\ UNCHANGED <<api_key, target_count, base_symbol, data, valid_symbols, result,
                   aggVars>>

\* Line 94 false: no key or no registry, the ranking provider is not asked.
SkipRanking ==
    /\ pc = "ranking"
    /\ ~(api_key /\ valid_binance_symbols # <<>>)
    /\ pc' = "fallback"
    /\ UNCHANGED <<raised, outcomes, api_key, target_count, base_symbol,
                   valid_binance_symbols, data, valid_symbols, result, aggVars>>

\* Lines 94-132: the request to the ranking provider and the primary loop.
Ranking ==
    /\ pc = "ranking"
    /\ api_key /\ valid_binance_symbols # <<>>
    /\ \E o \in Outcomes :
         /\ outcomes' = Append(outcomes, <<"ranking", o>>)
         /\ CASE o = "transport" ->
                   /\ raised' = "RequestException"
                   /\ pc' = "raised"
                   /\ UNCHANGED <<data, valid_symbols, result>>
              [] o = "malformed" ->
                   /\ raised' = "BodyError"
                   /\ pc' = "raised"
                   /\ UNCHANGED <<data, valid_symbols, result>>
              [] o = "status" ->
                   /\ pc' = "fallback"
                   /\ UNCHANGED <<raised, data, valid_symbols, result>>
              [] o = "ok" ->
                   \E items \in SeqsUpTo(RankedCodes, MaxRanked) :
                     LET vs == PrimaryLoop(items, 1, <<>>, valid_binance_symbols,
                                           target_count)
                     IN  /\ data' = items
                         /\ valid_symbols' = vs
                         /\ IF Len(vs) >= target_count
                            THEN /\ result' = Take(vs, target_count)
                                 /\ pc' = "done"
                            ELSE /\ pc' = "fallback"
                                 /\ UNCHANGED result
                         /\ UNCHANGED raised
    /\ UNCHANGED <<api_key, target_count, base_symbol, valid_binance_symbols, aggVars>>

\* Lines 134-155: the fallback loop and the return.
Fallback ==
    /\ pc = "fallback"
    /\ LET vs == FallbackLoop(1, valid_symbols, valid_binance_symbols, target_count)
       IN  /\ valid_symbols' = vs
           /\ result' = Take(vs, target_count)
    /\ pc' = "done"
    /\ UNCHANGED <<raised, outcomes, api_key, target_count, base_symbol,
                   valid_binance_symbols, data, aggVars>>

SelectNext == Discover \/ SkipRanking \/ Ranking \/ Fallback

SpecSelect == SelectInit /\ [][SelectNext]_vars

----------------------------------------------------------------------------
(* The resolver alone *)

ResolveInit ==
    /\ pc = "resolve"
    /\ raised = NoError
    /\ outcomes = <<>>
    /\ api_key = FALSE
    /\ target_count = 0
    /\ base_symbol \in ResolverCodes
    /\ valid_binance_symbols \in Orderings(ResolverPairs, MaxRegistry)
    /\ data = <<>>
    /\ valid_symbols = <<>>
    /\ result = None
    /\ AggIdle

Resolve ==
    /\ pc = "resolve"
    /\ result' = find_valid_symbol(base_symbol, valid_binance_symbols)
    /\ pc' = "resolved"
    /\ UNCHANGED <<raised, outcomes, api_key, target_count, base_symbol,
                   valid_binance_symbols, data, valid_symbols, aggVars>>

ResolveNext == Resolve

SpecResolve == ResolveInit /\ [][ResolveNext]_vars

----------------------------------------------------------------------------
(* Frames and tables *)

\* A DataFrame of one close column is [column, index]: the column's name and
\* the sequence of its timestamps; every row of it holds a float.
Frame(column, index) == [column |-> column, index |-> index]

\* Strictly increasing non-empty sequences of the timestamps 1..n: the
\* frames a backend returns for a symbol.  The live API may answer 200 with
\* an empty array, which gives the empty frame.
Increasing(s) == \A j \in 1..(Len(s) - 1) : s[j] < s[j + 1]

SeriesUpTo(n) == {s \in SeqsUpTo(1..n, n) : Len(s) > 0 /\ Increasing(s)}

\* pd.concat(frames, axis=1): one column per frame, the outer join of the
\* indexes, NaN where a frame has no row for a timestamp.
concat_axis1(frames) ==
    LET idx == UNION {Range(frames[k].index) : k \in 1..Len(frames)}
    IN  [columns |-> [k \in 1..Len(frames) |-> frames[k].column],
         index   |-> idx,
         cell    |-> [t \in idx |->
                        [k \in 1..Len(frames) |->
                           IF t \in Range(frames[k].index) THEN "close" ELSE "NaN"]]]

\* dropna(how='all'): only the rows that are NaN in every column are dropped.
dropna_all(df) ==
    LET keep == {t \in df.index : \E k \in 1..Len(df.columns) : df.cell[t][k] # "NaN"}
    IN  [columns |-> df.columns,
         index   |-> keep,
         cell    |-> [t \in keep |-> df.cell[t]]]

\* DataFrame.dropna(): the rows without any NaN.
dropna(df) ==
    LET keep == {t \in df.index : \A k \in 1..Len(df.columns) : df.cell[t][k] # "NaN"}
    IN  [columns |-> df.columns,
         index   |-> keep,
         cell    |-> [t \in keep |-> df.cell[t]]]

\* The per-day frames joined last day first.
RECURSIVE concat_reversed(_)
concat_reversed(frames) ==
    IF frames = <<>> THEN <<>>
    ELSE concat_reversed(Tail(frames)) \o Head(frames)

\* pd.concat(frames) along the rows: the indexes one after the other.
RECURSIVE concat_axis0(_)
concat_axis0(frames) ==
    IF frames = <<>> THEN <<>>
    ELSE Head(frames) \o concat_axis0(Tail(frames))

\* all_symbol_data[key] = index, for a dict kept as a sequence of frames in
\* insertion order: a key already present keeps its place.
DictSet(dict, key, index) ==
    IF \E k \in 1..Len(dict) : dict[k].column = key
    THEN [k \in 1..Len(dict) |->
            IF dict[k].column = key THEN Frame(key, index) ELSE dict[k]]
    ELSE Append(dict, Frame(key, index))

\* Lines 286-299 and 361-371: the merge of the successful frames.  A merge
\* without frames raises ValueError; the report reads index[0] of the
\* merged table, which raises IndexError when no row is left.
MergeRaises(frames) ==
    IF frames = <<>> THEN "ValueError"
    ELSE IF dropna(concat_axis1(frames)).index = {} THEN "IndexError"
    ELSE NoError

AggSymbols == {"BTCUSDT", "ETHUSDT"}

Sources == {"auto", "vision", "api"}

----------------------------------------------------------------------------
(* Aggregator, rolling-window mode: get_multiple_cryptos_data *)

\* symbols is the list the caller passes, or the list get_top10_symbols
\* returned (lines 246-248), which may name a pair twice.  The limit of
\* lines 265 and 272 only parametrises the request and is not modelled.

RollingInit ==
    /\ pc = "symbols"
    /\ raised = NoError
    /\ outcomes = <<>>
    /\ target_count = 0
    /\ result = None
    /\ api_key = FALSE
    /\ base_symbol = None
    /\ valid_binance_symbols = <<>>
    /\ data = <<>>
    /\ valid_symbols = <<>>
    /\ symbols \in SeqsUpTo(AggSymbols, MaxSymbols)
    /\ source \in Sources
    /\ num_days = 0
    /\ symbol_index = 1
    /\ date_index = 0
    /\ all_data = <<>>
    /\ successful_symbols = <<>>
    /\ failed_symbols = <<>>
    /\ successful_count = 0
    /\ symbol_data_list = <<>>

\* Lines 275-282: the data of one symbol is recorded; returned is FALSE when
\* data is None, and frame is then not read.
Record(returned, frame) ==
    LET symbol == symbols[symbol_index]
    IN  /\ IF returned /\ Len(frame) > 0
           THEN /\ all_data' = Append(all_data, Frame(symbol, frame))
                /\ successful_symbols' = Append(successful_symbols, symbol)
                /\ UNCHANGED failed_symbols
           ELSE /\ failed_symbols' = Append(failed_symbols, symbol)
                /\ UNCHANGED <<all_data, successful_symbols>>
        /\ symbol_index' = symbol_index + 1
        /\ UNCHANGED <<pc, raised>>

\* An exception of a backend call leaves get_multiple_cryptos_data.
Abort(kind) ==
    /\ raised' = kind
    /\ pc' = "raised"
    /\ UNCHANGED <<symbol_index, all_data, successful_symbols, failed_symbols>>

ErrorOf(o) == IF o = "transport" THEN "RequestException" ELSE "BodyError"

\* What get_binance_vision_data (lines 158-193) can return on outcome "ok".
VisionFrames == SeriesUpTo(MaxStamp)

\* What get_binance_klines (lines 196-224) can return on outcome "ok".
KlinesFrames == SeriesUpTo(MaxStamp) \cup {<<>>}

\* Lines 261-266: source 'auto', the archive answers.
FetchAutoVision ==
    /\ pc = "symbols" /\ symbol_index <= Len(symbols) /\ source = "auto"
    /\ \E o \in Outcomes \ {"status"} :
         /\ outcomes' = Append(outcomes, <<"vision", symbol_index, o>>)
         /\ IF o = "ok"
            THEN \E f \in VisionFrames : Record(TRUE, f)
            ELSE Abort(ErrorOf(o))
    /\ UNCHANGED <<target_count, result, selVars, symbols, source, num_days,
                   date_index, successful_count, symbol_data_list>>

\* Lines 261-266: source 'auto', the archive returns None, the live API is asked.
FetchAutoKlines ==
    /\ pc = "symbols" /\ symbol_index <= Len(symbols) /\ source = "auto"
    /\ \E o \in Outcomes :
         /\ outcomes' = outcomes \o <<<<"vision", symbol_index, "status">>,
                                      <<"api", symbol_index, o>>>>
         /\ CASE o = "ok" -> \E f \in KlinesFrames : Record(TRUE, f)
              [] o = "status" -> Record(FALSE, <<>>)
              [] OTHER -> Abort(ErrorOf(o))
    /\ UNCHANGED <<target_count, result, selVars, symbols, source, num_days,
                   date_index, successful_count, symbol_data_list>>

\* Lines 268-269: source 'vision'.
FetchVision ==
    /\ pc = "symbols" /\ symbol_index <= Len(symbols) /\ source = "vision"
    /\ \E o \in Outcomes :
         /\ outcomes' = Append(outcomes, <<"vision", symbol_index, o>>)
         /\ CASE o = "ok" -> \E f \in VisionFrames : Record(TRUE, f)
              [] o = "status" -> Record(FALSE, <<>>)
              [] OTHER -> Abort(ErrorOf(o))
    /\ UNCHANGED <<target_count, result, selVars, symbols, source, num_days,
                   date_index, successful_count, symbol_data_list>>

\* Lines 271-273: source 'api'.
FetchKlines ==
    /\ pc = "symbols" /\ symbol_index <= Len(symbols) /\ source = "api"
    /\ \E o \in Outcomes :
         /\ outcomes' = Append(outcomes, <<"api", symbol_index, o>>)
         /\ CASE o = "ok" -> \E f \in KlinesFrames : Record(TRUE, f)
              [] o = "status" -> Record(FALSE, <<>>)
              [] OTHER -> Abort(ErrorOf(o))
    /\ UNCHANGED <<target_count, result, selVars, symbols, source, num_days,
                   date_index, successful_count, symbol_data_list>>

\* Lines 286-299 (rolling window) and 361-371 (multi-day).
Merge ==
    /\ pc = "merge"
    /\ LET err == MergeRaises(all_data)
       IN  IF err = NoError
           THEN /\ result' = dropna(concat_axis1(all_data))
                /\ pc' = "done"
                /\ UNCHANGED raised
           ELSE /\ raised' = err
                /\ pc' = "raised"
                /\ UNCHANGED result
    /\ UNCHANGED <<outcomes, target_count, selVars, aggVars>>

\* The symbol loop of line 257 is exhausted.
EndRolling ==
    /\ pc = "symbols" /\ symbol_index > Len(symbols)
    /\ pc' = "merge"
    /\ UNCHANGED <<raised, outcomes, target_count, result, selVars, aggVars>>

RollingNext ==
    FetchAutoVision \/ FetchAutoKlines \/ FetchVision \/ FetchKlines
    \/ EndRolling \/ Merge

SpecRolling == RollingInit /\ [][RollingNext]_vars

----------------------------------------------------------------------------
(* Aggregator, multi-day mode: get_crypto_data_multi_day *)

\* dates (line 333) is 1..num_days, in date order; the daily archive of a
\* date holds the candle of that date.
DayFrame(date) == <<date>>

MultiInit ==
    /\ pc = "loop"
    /\ raised = NoError
    /\ outcomes = <<>>
    /\ target_count \in 0..MaxTarget
    /\ result = None
    /\ api_key = FALSE
    /\ base_symbol = None
    /\ valid_binance_symbols = <<>>
    /\ data = <<>>
    /\ valid_symbols = <<>>
    /\ symbols \in SeqsUpTo(AggSymbols, MaxSymbols)
    /\ source = None
    /\ num_days \in 0..MaxDays
    /\ symbol_index = 1
    /\ date_index = 0
    /\ all_data = <<>>
    /\ successful_symbols = <<>>
    /\ failed_symbols = <<>>
    /\ successful_count = 0
    /\ symbol_data_list = <<>>

\* The early-exit test passing one symbol too late.
Enough_Late(count, target) == count > target

\* Line 339: the early-exit test of the symbol loop.
Enough(count, target) == count >= target

\* Lines 338-343: the next symbol is taken up.
NextSymbol ==
    /\ pc = "loop"
    /\ symbol_index <= Len(symbols)
    /\ ~Enough(successful_count, target_count)
    /\ symbol_data_list' = <<>>
    /\ date_index' = 1
    /\ pc' = "days"
    /\ UNCHANGED <<raised, outcomes, target_count, result, selVars, symbols, source,
                   num_days, symbol_index, all_data, successful_symbols,
                   failed_symbols, successful_count>>

\* Lines 339-340: enough symbols succeeded, the symbol loop is left.
Break ==
    /\ pc = "loop"
    /\ symbol_index <= Len(symbols)
    /\ Enough(successful_count, target_count)
    /\ pc' = "merge"
    /\ UNCHANGED <<raised, outcomes, target_count, result, selVars, aggVars>>

\* Line 338: no symbol is left.
Exhausted ==
    /\ pc = "loop"
    /\ symbol_index > Len(symbols)
    /\ pc' = "merge"
    /\ UNCHANGED <<raised, outcomes, target_count, result, selVars, aggVars>>

\* Lines 345-350: one date of the symbol in progress.
FetchDay ==
    /\ pc = "days"
    /\ date_index <= num_days
    /\ \E o \in Outcomes :
         /\ outcomes' = Append(outcomes, <<"vision", symbol_index, date_index, o>>)
         /\ CASE o = "ok" ->
                   /\ symbol_data_list' = Append(symbol_data_list, DayFrame(date_index))
                   /\ date_index' = date_index + 1
                   /\ UNCHANGED <<pc, raised>>
              [] o = "status" ->
                   /\ date_index' = date_index + 1
                   /\ UNCHANGED <<pc, raised, symbol_data_list>>
              [] OTHER ->
                   /\ raised' = ErrorOf(o)
                   /\ pc' = "raised"
                   /\ UNCHANGED <<date_index, symbol_data_list>>
    /\ UNCHANGED <<target_count, result, selVars, symbols, source, num_days,
                   symbol_index, all_data, successful_symbols, failed_symbols,
                   successful_count>>

\* Lines 352-359: the day loop is over, the symbol succeeded or failed.
EndSymbol ==
    /\ pc = "days"
    /\ date_index > num_days
    /\ IF symbol_data_list # <<>>
       THEN /\ all_data' = DictSet(all_data, symbols[symbol_index],
                                   concat_axis0(symbol_data_list))
            /\ successful_count' = successful_count + 1
       ELSE UNCHANGED <<all_data, successful_count>>
    /\ symbol_index' = symbol_index + 1
    /\ pc' = "loop"
    /\ UNCHANGED <<raised, outcomes, target_count, result, selVars, symbols, source,
                   num_days, date_index, successful_symbols, failed_symbols,
                   symbol_data_list>>

MultiNext == NextSymbol \/ Break \/ Exhausted \/ FetchDay \/ EndSymbol \/ Merge

SpecMulti == MultiInit /\ [][MultiNext]_vars

(* Both fetch modes of the aggregator *)

AggregateInit == RollingInit \/ MultiInit

AggregateNext == RollingNext \/ MultiNext

SpecAggregate == AggregateInit /\ [][AggregateNext]_vars

----------------------------------------------------------------------------
(* Properties of the selector *)

\* The codes the selector must keep out, as the specification lists them.
FilteredCodes == {"USDT", "USDC", "BUSD", "TUSD", "DAI", "FDUSD", "USDE",
                  "WETH", "WBTC", "STETH"}

FilteredPairs == {c \o QUOTE : c \in FilteredCodes}

\* C1: the list returned by get_top10_symbols has at most target_count
\* elements and holds no pair twice (stated here for ranked lists that name
\* no ticker twice).
C1_LengthAndNoDuplicates ==
    (pc = "done" /\ NoDuplicates(data))
    => Len(result) <= target_count /\ NoDuplicates(result)

\* C2: no element of the list returned by get_top10_symbols is the pair of a
\* stablecoin code or of an excluded wrapped-asset code.
C2_NoFilteredPair ==
    pc = "done" => \A k \in 1..Len(result) : result[k] \notin FilteredPairs

\* C5: when a call to a collaborator fails (another status, a transport
\* error, an unreadable body), no error leaves the entry point.
C5_FailureNeverRaised ==
    (\E k \in 1..Len(outcomes) : outcomes[k][2] # "ok") => raised = NoError

\* The ranked candidates that are not filtered and that resolve, in rank order.
Resolvable ==
    SelectSeq(data, LAMBDA c : c \notin FilteredCodes
                               /\ find_valid_symbol(c, valid_binance_symbols) # None)

PrimaryPath ==
    /\ Len(outcomes) = 2
    /\ outcomes[2] = <<"ranking", "ok">>

\* C7: on the primary path, when at least target_count candidates resolve,
\* the list returned is the resolutions of the first target_count resolvable
\* candidates that are not filtered, in rank order.
C7_PrimaryPathOrder ==
    (pc \in {"done", "fallback"} /\ PrimaryPath /\ Len(Resolvable) >= target_count)
    => /\ pc = "done"
       /\ Len(result) = target_count
       /\ \A k \in 1..target_count :
            result[k] = find_valid_symbol(Resolvable[k], valid_binance_symbols)

C7_Witness ==
    /\ pc = "done"
    /\ PrimaryPath
    /\ target_count = 2
    /\ data = <<"BTC", "WBTC", "ETH">>
    /\ {"BTCUSDT", "ETHUSDT", "WBTCUSDT"} \subseteq Range(valid_binance_symbols)
    /\ result = <<"BTCUSDT", "ETHUSDT">>

----------------------------------------------------------------------------
(* Properties of the resolver *)

\* Asset codes: upper-case tickers.
AssetCodes == RankedCodes \cup {"USDC"}

AliasOf(a) == IF a = "HYPE" THEN {"HYPERUSDT"} ELSE {}

PrefixMatches(a, registry) ==
    {k \in 1..Len(registry) : startswith(registry[k], a) /\ endswith(registry[k], QUOTE)}

Min(S) == CHOOSE x \in S : \A y \in S : x <= y

\* C6: for an asset code, find_valid_symbol returns the exact concatenation
\* when the registry holds it, else the alias when the registry holds it,
\* else the first registry entry, in iteration order, that starts with the
\* code and ends with the quote, else None; the result is None or a member
\* of the registry.
C6_PriorityOrder ==
    (pc = "resolved" /\ base_symbol \in AssetCodes)
    => LET reg     == Range(valid_binance_symbols)
           exact   == base_symbol \o QUOTE
           alias   == AliasOf(base_symbol) \cap reg
           matches == PrefixMatches(base_symbol, valid_binance_symbols)
       IN  /\ result \in reg \cup {None}
           /\ exact \in reg => result = exact
           /\ (exact \notin reg /\ alias # {}) => result \in alias
           /\ (exact \notin reg /\ alias = {} /\ matches # {})
                => result = valid_binance_symbols[Min(matches)]
           /\ (exact \notin reg /\ alias = {} /\ matches = {}) => result = None

C6_Witness ==
    /\ pc = "resolved"
    /\ base_symbol = "HYPE"
    /\ valid_binance_symbols = <<"HYPEXUSDT", "HYPERUSDT", "HYPEUSDT">>
    /\ result = "HYPEUSDT"

----------------------------------------------------------------------------
(* Properties of the aggregator *)

AllCallsReturned ==
    \A k \in 1..Len(outcomes) :
        outcomes[k][Len(outcomes[k])] \in {"ok", "status"}

\* C3: an error leaves the aggregator only when no symbol produced data:
\* when every backend call returned and at least one symbol of a list of
\* distinct symbols succeeded, the call returns and raises nothing.
C3_ErrorOnlyWithoutData ==
    (pc = "raised" /\ AllCallsReturned /\ NoDuplicates(symbols)) => all_data = <<>>

\* C4: in rolling-window mode with failover over distinct symbols, when the
\* archive returned None for every symbol, every live call returned and the
\* live backend gave data for at least one symbol, the call returns a table
\* with at least one row.
C4_Failover ==
    (/\ source = "auto"
     /\ pc \in {"done", "raised"}
     /\ AllCallsReturned
     /\ NoDuplicates(symbols)
     /\ \A k \in 1..Len(outcomes) :
            outcomes[k][1] = "vision" => outcomes[k][3] = "status"
     /\ successful_symbols # <<>>)
    => pc = "done" /\ result.index # {}

\* The timestamps every successful frame holds.
Common ==
    {t \in UNION {Range(all_data[k].index) : k \in 1..Len(all_data)} :
        \A k \in 1..Len(all_data) : t \in Range(all_data[k].index)}

\* The symbols of the multi-day list for which some day returned data.
SucceededAt(k) ==
    \E j \in 1..Len(outcomes) :
        outcomes[j][2] = k /\ outcomes[j][Len(outcomes[j])] = "ok"

\* C8: the table returned has one column per successful symbol, its index
\* is the intersection of the successful frames' timestamps, and no cell of
\* it is missing.
C8_Intersection ==
    pc = "done"
    => /\ result.index = Common
       /\ \A t \in result.index : \A k \in 1..Len(result.columns) :
              result.cell[t][k] = "close"
       /\ Len(result.columns) = Len(all_data)
       /\ source # None => result.columns = successful_symbols
       /\ source = None =>
              /\ NoDuplicates(result.columns)
              /\ Range(result.columns) =
                    {symbols[k] : k \in {j \in 1..Len(symbols) : SucceededAt(j)}}

C8_Witness ==
    /\ pc = "done"
    /\ Len(all_data) >= 2
    /\ result.index # {}
    /\ \E k \in 1..Len(all_data) : Range(all_data[k].index) # result.index

\* The dates asked for the symbol at position k, in call order.
DatesFetched(k) ==
    LET mine == SelectSeq(outcomes, LAMBDA e : e[2] = k)
    IN  [j \in 1..Len(mine) |-> mine[j][3]]

\* The dates for which the archive returned data for the symbol at position k.
OkDays(k) ==
    LET mine == SelectSeq(outcomes, LAMBDA e : e[2] = k /\ e[4] = "ok")
    IN  [j \in 1..Len(mine) |-> mine[j][3]]

\* The positions whose day loop is over.
Processed == 1..(symbol_index - 1)

RECURSIVE DayFrames(_)
DayFrames(days) ==
    IF days = <<>> THEN <<>> ELSE DayFrame(Head(days)) \o DayFrames(Tail(days))

\* C9: in multi-day mode every symbol whose day loop is over was asked once
\* per date, in date order; its series is the concatenation, in date order,
\* of the frames returned; and it counts as successful exactly when some day
\* returned data.
C9_PerDayConcatenation ==
    /\ \A k \in Processed : DatesFetched(k) = [j \in 1..num_days |-> j]
    /\ successful_count = Cardinality({k \in Processed : OkDays(k) # <<>>})
    /\ \A k \in Processed :
         (/\ OkDays(k) # <<>>
          /\ ~\E later \in Processed :
                 later > k /\ symbols[later] = symbols[k] /\ OkDays(later) # <<>>)
         => \E f \in Range(all_data) :
                f.column = symbols[k] /\ f.index = DayFrames(OkDays(k))

C9_Witness ==
    /\ pc = "loop"
    /\ num_days = 3
    /\ symbol_index = 2
    /\ outcomes = <<<<"vision", 1, 1, "ok">>, <<"vision", 1, 2, "status">>,
                    <<"vision", 1, 3, "ok">>>>
    /\ all_data = <<Frame(symbols[1], <<1, 3>>)>>
    /\ successful_count = 1

\* C10: the early exit is tested between symbols only: no call is made for
\* a symbol once target_count symbols before it succeeded, the symbols are
\* taken in list order, every symbol taken up is asked for the dates in
\* order without a gap, and at most target_count symbols are in the result.
C10_EarlyExitBetweenSymbols ==
    /\ \A j \in 1..Len(outcomes) :
         Cardinality({k \in 1..(outcomes[j][2] - 1) : OkDays(k) # <<>>}) < target_count
    /\ \A j \in 1..(Len(outcomes) - 1) :
         \/ /\ outcomes[j + 1][2] = outcomes[j][2]
            /\ outcomes[j + 1][3] = outcomes[j][3] + 1
         \/ /\ outcomes[j + 1][2] > outcomes[j][2]
            /\ outcomes[j][3] = num_days
            /\ outcomes[j + 1][3] = 1
    /\ pc \in {"loop", "merge", "done"} =>
         \A k \in 1..Len(symbols) :
             Len(DatesFetched(k)) \in {0, num_days}
    /\ Len(all_data) <= target_count
    /\ pc = "done" => Len(result.columns) <= target_count

C10_Witness ==
    /\ pc = "merge"
    /\ target_count >= 1
    /\ successful_count = target_count
    /\ symbol_index <= Len(symbols)
    /\ num_days >= 2
    /\ DatesFetched(symbol_index) = <<>>

====
